---------------------------- MODULE Spec2Model ----------------------------
(***************************************************************************)
(* Model of src/js/index.js: a rule-based validation engine for one web    *)
(* form.  Strings are sequences of one-character strings, so that the      *)
(* placeholder substitution and the length and pattern tests are computed  *)
(* on characters, as the JavaScript does.                                  *)
(***************************************************************************)
EXTENDS Integers, Sequences, FiniteSets, TLC

VARIABLES
    settings,      \* the field -> rules registry in use (index.js 216-222)
    values,        \* the form: field identifier -> current value
    errors,        \* the form: field identifier -> text of its .form-text
    returned,      \* what the last validate() returned: "none", "true", "false"
    displayCalls,  \* the displayError calls of the last validate(), in order
    ruleCalls,     \* the rule evaluations of the last validate(), in order
    fetchCalls,    \* the getValue calls of the last validate(), in order
    alertShown,    \* whether 'Account has been created' was ever alerted
    lastOp,        \* the last operation: "init", "edit", "validate", "submit", "reset"
    streak,        \* validate() passes since the values last changed (capped at 2)
    edits,         \* number of field edits so far
    call           \* a direct call of a pure function: its arguments and result

vars == <<settings, values, errors, returned, displayCalls, ruleCalls, fetchCalls,
          alertShown, lastOp, streak, edits, call>>

----------------------------------------------------------------------------
(* Bounds of the model *)

\* longest run of "a" typed into a field or handed to a rule
MaxLen == 3
\* number of field edits in one behaviour
MaxEdits == 2
\* longest template handed to a direct call of replaceWithPlaceholders
MaxTplLen == 4
\* longest username of a filled-in form
MaxUsernameLen == 17
\* largest rule parameter of a direct call of a rule (besides 16, the shipped one)
MaxParam == 4

----------------------------------------------------------------------------
(* Characters and JavaScript values *)

LowerCase == {"a", "b", "c", "d", "e", "f", "g", "h", "i", "j", "k", "l", "m",
              "n", "o", "p", "q", "r", "s", "t", "u", "v", "w", "x", "y", "z"}
UpperCase == {"A", "B", "C", "D", "E", "F", "G", "H", "I", "J", "K", "L", "M",
              "N", "O", "P", "Q", "R", "S", "T", "U", "V", "W", "X", "Y", "Z"}
Digits == {"0", "1", "2", "3", "4", "5", "6", "7", "8", "9"}

\* \w of the regular expression /{(\w+)}/g
WordChars == LowerCase \cup UpperCase \cup Digits \cup {"_"}
\* [a-zA-Z+\d] and [a-zA-Z\d] of the email pattern
EmailLocalChars == LowerCase \cup UpperCase \cup Digits \cup {"+"}
EmailDomainChars == LowerCase \cup UpperCase \cup Digits

\* A JavaScript value found in an object: a number, a string, a built-in
\* function (str holds its name) or an object.
JSNum(n) == [type |-> "number", num |-> n, str |-> <<>>]
JSStr(s) == [type |-> "string", num |-> 0, str |-> s]
JSFun(name) == [type |-> "function", num |-> 0, str |-> name]
JSObj == [type |-> "object", num |-> 0, str |-> <<>>]

\* JavaScript truthiness, as the || of line 29 and line 240 tests it.
Truthy(v) ==
    CASE v.type = "number" -> v.num # 0
      [] v.type = "string" -> v.str # <<>>
      [] OTHER -> TRUE

\* The properties every object literal inherits from Object.prototype.
ObjectPrototype ==
    (<<"c", "o", "n", "s", "t", "r", "u", "c", "t", "o", "r">>
        :> JSFun(<<"O", "b", "j", "e", "c", "t">>))
    @@
    (<<"t", "o", "S", "t", "r", "i", "n", "g">>
        :> JSFun(<<"t", "o", "S", "t", "r", "i", "n", "g">>))
    @@
    (<<"t", "o", "L", "o", "c", "a", "l", "e", "S", "t", "r", "i", "n",
        "g">>
        :> JSFun(<<"t", "o", "L", "o", "c", "a", "l", "e", "S", "t", "r",
                  "i", "n", "g">>))
    @@
    (<<"v", "a", "l", "u", "e", "O", "f">>
        :> JSFun(<<"v", "a", "l", "u", "e", "O", "f">>))
    @@
    (<<"h", "a", "s", "O", "w", "n", "P", "r", "o", "p", "e", "r", "t",
        "y">>
        :> JSFun(<<"h", "a", "s", "O", "w", "n", "P", "r", "o", "p", "e",
                  "r", "t", "y">>))
    @@
    (<<"i", "s", "P", "r", "o", "t", "o", "t", "y", "p", "e", "O", "f">>
        :> JSFun(<<"i", "s", "P", "r", "o", "t", "o", "t", "y", "p", "e",
                  "O", "f">>))
    @@
    (<<"p", "r", "o", "p", "e", "r", "t", "y", "I", "s", "E", "n", "u",
        "m", "e", "r", "a", "b", "l", "e">>
        :> JSFun(<<"p", "r", "o", "p", "e", "r", "t", "y", "I", "s", "E",
                  "n", "u", "m", "e", "r", "a", "b", "l", "e">>))
    @@
    (<<"_", "_", "d", "e", "f", "i", "n", "e", "G", "e", "t", "t", "e",
        "r", "_", "_">>
        :> JSFun(<<"_", "_", "d", "e", "f", "i", "n", "e", "G", "e", "t",
                  "t", "e", "r", "_", "_">>))
    @@
    (<<"_", "_", "d", "e", "f", "i", "n", "e", "S", "e", "t", "t", "e",
        "r", "_", "_">>
        :> JSFun(<<"_", "_", "d", "e", "f", "i", "n", "e", "S", "e", "t",
                  "t", "e", "r", "_", "_">>))
    @@
    (<<"_", "_", "l", "o", "o", "k", "u", "p", "G", "e", "t", "t", "e",
        "r", "_", "_">>
        :> JSFun(<<"_", "_", "l", "o", "o", "k", "u", "p", "G", "e", "t",
                  "t", "e", "r", "_", "_">>))
    @@
    (<<"_", "_", "l", "o", "o", "k", "u", "p", "S", "e", "t", "t", "e",
        "r", "_", "_">>
        :> JSFun(<<"_", "_", "l", "o", "o", "k", "u", "p", "S", "e", "t",
                  "t", "e", "r", "_", "_">>))
    @@
    (<<"_", "_", "p", "r", "o", "t", "o", "_", "_">> :> JSObj)

\* Whether object[key] is defined, for an object literal: an own key, or a
\* property of Object.prototype.
HasProperty(object, key) ==
    key \in DOMAIN object \/ key \in DOMAIN ObjectPrototype

\* object[key], where it is defined.
Get(object, key) ==
    IF key \in DOMAIN object THEN object[key] ELSE ObjectPrototype[key]

DigitChar(d) == <<"0", "1", "2", "3", "4", "5", "6", "7", "8", "9">>[d + 1]

RECURSIVE NatToStr(_)
NatToStr(n) ==
    IF n < 10 THEN <<DigitChar(n)>>
    ELSE NatToStr(n \div 10) \o <<DigitChar(n % 10)>>

\* The string String.prototype.replace makes of a callback's return value.
ToStr(v) ==
    CASE v.type = "string" -> v.str
      [] v.type = "number" ->
             IF v.num < 0 THEN <<"-">> \o NatToStr(0 - v.num) ELSE NatToStr(v.num)
      [] v.type = "function" ->
             \* 'function <name>() { [native code] }'
             <<"f", "u", "n", "c", "t", "i", "o", "n", " ">> \o v.str
             \o <<"(", ")", " ", "{", " ", "[", "n", "a", "t", "i", "v", "e", " ",
                  "c", "o", "d", "e", "]", " ", "}">>
      [] v.type = "object" ->
             \* '[object Object]'
             <<"[", "o", "b", "j", "e", "c", "t", " ", "O", "b", "j", "e", "c",
               "t", "]">>

----------------------------------------------------------------------------
(* replaceWithPlaceholders (index.js 25-32) *)

\* Last index of the run of \w characters that starts at i (i - 1 if none).
RECURSIVE WordEnd(_, _)
WordEnd(string, i) ==
    IF i <= Len(string) /\ string[i] \in WordChars
    THEN WordEnd(string, i + 1)
    ELSE i - 1

\* Whether /{(\w+)}/ matches at index i, and where the match ends.
MatchEnd(string, i) == WordEnd(string, i + 1) + 1
MatchesAt(string, i) ==
    /\ string[i] = "{"
    /\ WordEnd(string, i + 1) >= i + 1
    /\ MatchEnd(string, i) <= Len(string)
    /\ string[MatchEnd(string, i)] = "}"

\* The callback of lines 28-30.
Replacement(replacements, placeholderWithDelimiters, placeholderWithoutDelimiters, unwrap) ==
    IF /\ HasProperty(replacements, placeholderWithoutDelimiters)
       /\ Truthy(Get(replacements, placeholderWithoutDelimiters))
    THEN ToStr(Get(replacements, placeholderWithoutDelimiters))
    ELSE IF unwrap THEN placeholderWithoutDelimiters
    ELSE placeholderWithDelimiters

\* string.replace(/{(\w+)}/g, callback) from index i on: one left-to-right
\* pass, the search resuming after each match.
RECURSIVE ReplaceFrom(_, _, _, _)
ReplaceFrom(string, i, replacements, unwrap) ==
    IF i > Len(string) THEN <<>>
    ELSE IF MatchesAt(string, i)
    THEN Replacement(replacements,
                     SubSeq(string, i, MatchEnd(string, i)),
                     SubSeq(string, i + 1, MatchEnd(string, i) - 1),
                     unwrap)
         \o ReplaceFrom(string, MatchEnd(string, i) + 1, replacements, unwrap)
    ELSE <<string[i]>> \o ReplaceFrom(string, i + 1, replacements, unwrap)

replaceWithPlaceholders(string, replacements, unwrap) ==
    ReplaceFrom(string, 1, replacements, unwrap)

----------------------------------------------------------------------------
(* The validators (index.js 37-168) *)

\* What a validator returns: true, or an error string.
Valid == [valid |-> TRUE, error |-> <<>>]
Invalid(error) == [valid |-> FALSE, error |-> error]

\* 'The {attribute} field is required.'
RequiredTemplate ==
    <<"T", "h", "e", " ", "{", "a", "t", "t", "r", "i", "b", "u", "t", "e", "}",
      " ", "f", "i", "e", "l", "d", " ", "i", "s", " ", "r", "e", "q", "u", "i",
      "r", "e", "d", ".">>
\* 'The {attribute} must be a valid email address.'
EmailTemplate ==
    <<"T", "h", "e", " ", "{", "a", "t", "t", "r", "i", "b", "u", "t", "e", "}",
      " ", "m", "u", "s", "t", " ", "b", "e", " ", "a", " ", "v", "a", "l", "i",
      "d", " ", "e", "m", "a", "i", "l", " ", "a", "d", "d", "r", "e", "s", "s",
      ".">>
\* 'The {attribute} must be at least {min} characters.'
MinLengthTemplate ==
    <<"T", "h", "e", " ", "{", "a", "t", "t", "r", "i", "b", "u", "t", "e", "}",
      " ", "m", "u", "s", "t", " ", "b", "e", " ", "a", "t", " ", "l", "e", "a",
      "s", "t", " ", "{", "m", "i", "n", "}", " ", "c", "h", "a", "r", "a", "c",
      "t", "e", "r", "s", ".">>
\* 'The {attribute} must not be greater than {max} characters'
MaxLengthTemplate ==
    <<"T", "h", "e", " ", "{", "a", "t", "t", "r", "i", "b", "u", "t", "e", "}",
      " ", "m", "u", "s", "t", " ", "n", "o", "t", " ", "b", "e", " ", "g", "r",
      "e", "a", "t", "e", "r", " ", "t", "h", "a", "n", " ", "{", "m", "a", "x",
      "}", " ", "c", "h", "a", "r", "a", "c", "t", "e", "r", "s">>
\* 'The {attribute} must be between {min} and {max} characters.'
BetweenLengthTemplate ==
    <<"T", "h", "e", " ", "{", "a", "t", "t", "r", "i", "b", "u", "t", "e", "}",
      " ", "m", "u", "s", "t", " ", "b", "e", " ", "b", "e", "t", "w", "e", "e",
      "n", " ", "{", "m", "i", "n", "}", " ", "a", "n", "d", " ", "{", "m", "a",
      "x", "}", " ", "c", "h", "a", "r", "a", "c", "t", "e", "r", "s", ".">>
\* 'The {attribute} confirmation does not match.'
ConfirmationTemplate ==
    <<"T", "h", "e", " ", "{", "a", "t", "t", "r", "i", "b", "u", "t", "e", "}",
      " ", "c", "o", "n", "f", "i", "r", "m", "a", "t", "i", "o", "n", " ", "d",
      "o", "e", "s", " ", "n", "o", "t", " ", "m", "a", "t", "c", "h", ".">>

\* The placeholder names of the templates, as keys of a replacements object.
KeyAttribute == <<"a", "t", "t", "r", "i", "b", "u", "t", "e">>
KeyMin == <<"m", "i", "n">>
KeyMax == <<"m", "a", "x">>

\* The field identifiers of the form.
FieldName == <<"n", "a", "m", "e">>
FieldEmail == <<"e", "m", "a", "i", "l">>
FieldUsername == <<"u", "s", "e", "r", "n", "a", "m", "e">>
FieldPassword == <<"p", "a", "s", "s", "w", "o", "r", "d">>
FieldConfirmPassword ==
    <<"c", "o", "n", "f", "i", "r", "m", "-", "p", "a", "s", "s", "w", "o", "r", "d">>
Fields == {FieldName, FieldEmail, FieldUsername, FieldPassword, FieldConfirmPassword}

\* getValue (index.js 177-179): the field's current value.
getValue(attribute) == values[attribute]

\* A form whose fields were all empty when the rules were constructed.
EmptyForm == [f \in Fields |-> <<>>]

required(value) ==
    IF Len(value) > 0 THEN Valid ELSE Invalid(RequiredTemplate)

\* /[a-zA-Z+\d]+@[a-zA-Z\d]+\.[a-zA-Z\d]+/.test(value): not anchored.
EmailPatternFound(value) ==
    \E i \in 2..Len(value) :
        /\ value[i] = "@"
        /\ value[i - 1] \in EmailLocalChars
        /\ \E j \in (i + 2)..(Len(value) - 1) :
              /\ value[j] = "."
              /\ \A k \in (i + 1)..(j - 1) : value[k] \in EmailDomainChars
              /\ value[j + 1] \in EmailDomainChars

email(value) ==
    IF EmailPatternFound(value) THEN Valid ELSE Invalid(EmailTemplate)

minLength(min, value) ==
    IF Len(value) >= min THEN Valid
    ELSE Invalid(replaceWithPlaceholders(MinLengthTemplate,
                                         (KeyMin :> JSNum(min)), FALSE))

maxLength(max, value) ==
    IF Len(value) <= max THEN Valid
    ELSE Invalid(replaceWithPlaceholders(MaxLengthTemplate,
                                         (KeyMax :> JSNum(max)), FALSE))

\* A variant with || in the place of &&.
betweenLengthEither(min, max, value) ==
    IF Len(value) <= min \/ Len(value) >= max THEN Valid
    ELSE Invalid(replaceWithPlaceholders(
                     BetweenLengthTemplate,
                     (KeyMin :> JSNum(min)) @@ (KeyMax :> JSNum(max)), FALSE))

\* The range test one would expect of the rule's name.
betweenLengthInRange(min, max, value) ==
    IF Len(value) >= min /\ Len(value) <= max THEN Valid
    ELSE Invalid(replaceWithPlaceholders(
                     BetweenLengthTemplate,
                     (KeyMin :> JSNum(min)) @@ (KeyMax :> JSNum(max)), FALSE))

betweenLength(min, max, value) ==
    IF Len(value) <= min /\ Len(value) >= max THEN Valid
    ELSE Invalid(replaceWithPlaceholders(
                     BetweenLengthTemplate,
                     (KeyMin :> JSNum(min)) @@ (KeyMax :> JSNum(max)), FALSE))

\* A confirmation that compares with the value the original field had when
\* the rule was constructed.
confirmationCaptured(originalAttribute, value) ==
    LET originalValue == EmptyForm[originalAttribute]
    IN  IF value = originalValue THEN Valid ELSE Invalid(ConfirmationTemplate)

confirmation(originalAttribute, value) ==
    LET originalValue == getValue(originalAttribute)
    IN  IF value = originalValue THEN Valid ELSE Invalid(ConfirmationTemplate)

\* The closures the factory functions return, as data.
Rule(kind, min, max, originalAttribute) ==
    [kind |-> kind, min |-> min, max |-> max, originalAttribute |-> originalAttribute]
RequiredRule == Rule("required", 0, 0, <<>>)
EmailRule == Rule("email", 0, 0, <<>>)
MinLengthRule(min) == Rule("minLength", min, 0, <<>>)
MaxLengthRule(max) == Rule("maxLength", 0, max, <<>>)
BetweenLengthRule(min, max) == Rule("betweenLength", min, max, <<>>)
ConfirmationRule(originalAttribute) == Rule("confirmation", 0, 0, originalAttribute)

\* validation(value), line 234: the call of one closure.
Apply(validation, value) ==
    CASE validation.kind = "required" -> required(value)
      [] validation.kind = "email" -> email(value)
      [] validation.kind = "minLength" -> minLength(validation.min, value)
      [] validation.kind = "maxLength" -> maxLength(validation.max, value)
      [] validation.kind = "betweenLength" ->
             betweenLength(validation.min, validation.max, value)
      [] validation.kind = "confirmation" ->
             confirmation(validation.originalAttribute, value)

----------------------------------------------------------------------------
(* The form: labels, registry, display (index.js 5-7, 189-222) *)

LABELS == (FieldConfirmPassword :> JSStr(FieldPassword))

\* A variant without labels.
LabelIsIdentifier(attribute) == JSStr(attribute)

\* LABELS[attribute] || attribute, line 240.
Label(attribute) ==
    IF HasProperty(LABELS, attribute) /\ Truthy(Get(LABELS, attribute))
    THEN Get(LABELS, attribute)
    ELSE JSStr(attribute)

Entry(attribute, validations) ==
    [attribute |-> attribute, validations |-> validations]

\* const settings, lines 216-222, in insertion order.
ShippedSettings ==
    << Entry(FieldName, <<RequiredRule>>),
       Entry(FieldEmail, <<RequiredRule, EmailRule>>),
       Entry(FieldUsername, <<RequiredRule, BetweenLengthRule(3, 16)>>),
       Entry(FieldPassword, <<RequiredRule, MinLengthRule(3)>>),
       Entry(FieldConfirmPassword, <<ConfirmationRule(FieldPassword)>>) >>

\* The registry of the end-to-end properties: {name: [required],
\* email: [required, email]}.
EndToEndSettings ==
    << Entry(FieldName, <<RequiredRule>>),
       Entry(FieldEmail, <<RequiredRule, EmailRule>>) >>

\* The registry of the short-circuit property: [required, minLength(5)],
\* followed by a confirmation of the same field.
ShortCircuitSettings ==
    << Entry(FieldPassword, <<RequiredRule, MinLengthRule(5)>>),
       Entry(FieldConfirmPassword, <<ConfirmationRule(FieldPassword)>>) >>

Registries == {ShippedSettings, EndToEndSettings, ShortCircuitSettings}

\* The state one validate() pass works on: its local isValid, the error
\* texts of the page, and the calls made so far.
PassStart ==
    [isValid |-> TRUE, errors |-> errors, displayCalls |-> <<>>,
     ruleCalls |-> <<>>, fetchCalls |-> <<>>]

\* displayError (189-191): sets the text of the field's .form-text.
displayError(st, attribute, error) ==
    [st EXCEPT !.errors[attribute] = error,
               !.displayCalls = Append(@, [attribute |-> attribute, error |-> error])]

\* A variant that leaves an already empty error text alone.
hideErrorIfShown(st, attribute) ==
    IF st.errors[attribute] = <<>> THEN st ELSE displayError(st, attribute, <<>>)

\* hideError (200-202).
hideError(st, attribute) == displayError(st, attribute, <<>>)

\* hideErrors (209-211): clears every .form-text.
hideErrors == [f \in Fields |-> <<>>]

----------------------------------------------------------------------------
(* validate (index.js 229-250) *)

\* A variant that forgets to clear isValid.
ValidationFailedKeepsValid(st, attribute, error) ==
    displayError(st, attribute,
                 replaceWithPlaceholders(
                     error, (KeyAttribute :> Label(attribute)), TRUE))

\* Lines 237-241: the branch of a rule that returned a string.
ValidationFailed(st, attribute, error) ==
    displayError([st EXCEPT !.isValid = FALSE], attribute,
                 replaceWithPlaceholders(
                     error, (KeyAttribute :> Label(attribute)), TRUE))

\* The getValue calls of one rule evaluation: the one of line 233 and, in a
\* confirmation rule, the one of line 154.
Fetches(attribute, validation) ==
    <<[attribute |-> attribute, line |-> 233]>>
    \o (IF validation.kind = "confirmation"
        THEN <<[attribute |-> validation.originalAttribute, line |-> 154]>>
        ELSE <<>>)

\* Lines 233-234: fetch the value and call the rule; the calls are recorded.
Evaluated(st, attribute, validation, k, value, outcome) ==
    [st EXCEPT !.ruleCalls =
                   Append(@, [attribute |-> attribute, index |-> k,
                              value |-> value, valid |-> outcome.valid]),
               !.fetchCalls = @ \o Fetches(attribute, validation)]

\* A variant of the inner loop without the break of line 242.
RECURSIVE RunValidationsNoBreak(_, _, _, _)
RunValidationsNoBreak(attribute, validations, k, st) ==
    IF k > Len(validations) THEN st
    ELSE LET value == getValue(attribute)
             error == Apply(validations[k], value)
             seen == Evaluated(st, attribute, validations[k], k, value, error)
         IN  IF ~error.valid
             THEN RunValidationsNoBreak(attribute, validations, k + 1,
                                        ValidationFailed(seen, attribute, error.error))
             ELSE RunValidationsNoBreak(attribute, validations, k + 1,
                                        hideError(seen, attribute))

\* A variant that hides the error once, after the last rule has passed.
RECURSIVE RunValidationsHideOnce(_, _, _, _)
RunValidationsHideOnce(attribute, validations, k, st) ==
    IF k > Len(validations) THEN st
    ELSE LET value == getValue(attribute)
             error == Apply(validations[k], value)
             seen == Evaluated(st, attribute, validations[k], k, value, error)
         IN  IF ~error.valid
             THEN ValidationFailed(seen, attribute, error.error)
             ELSE RunValidationsHideOnce(
                      attribute, validations, k + 1,
                      IF k = Len(validations) THEN hideError(seen, attribute)
                      ELSE seen)

\* The inner loop, lines 232-246, from the k-th rule on.
RECURSIVE RunValidations(_, _, _, _)
RunValidations(attribute, validations, k, st) ==
    IF k > Len(validations) THEN st
    ELSE LET value == getValue(attribute)
             error == Apply(validations[k], value)
             seen == Evaluated(st, attribute, validations[k], k, value, error)
         IN  IF ~error.valid
             THEN ValidationFailed(seen, attribute, error.error)
             ELSE RunValidations(attribute, validations, k + 1,
                                 hideError(seen, attribute))

\* The outer loop, line 231, from the n-th entry of Object.entries on.
RECURSIVE RunEntries(_, _, _)
RunEntries(entries, n, st) ==
    IF n > Len(entries) THEN st
    ELSE RunEntries(entries, n + 1,
                    RunValidations(entries[n].attribute, entries[n].validations, 1, st))

validate == RunEntries(settings, 1, PassStart)

Bool(b) == IF b THEN "true" ELSE "false"
Min(a, b) == IF a < b THEN a ELSE b

----------------------------------------------------------------------------
(* Inputs *)

RECURSIVE Fill(_)
Fill(n) == IF n = 0 THEN <<>> ELSE <<"a">> \o Fill(n - 1)

\* 'a@b.c'
EmailSample == <<"a", "@", "b", ".", "c">>

\* What a user types into a field: nothing, a short and a longer run of
\* "a", an email address.
Inputs == {Fill(0), Fill(MaxLen - 1), Fill(MaxLen), EmailSample}

\* What a rule is called with directly.
RuleInputs == {Fill(n) : n \in 0..MaxLen} \cup {EmailSample}

\* A direct call that has not been made.
NoCall == [fn |-> "none"]

----------------------------------------------------------------------------
(* The form's behaviour *)

Init ==
    /\ settings \in Registries
    /\ values = EmptyForm
    /\ errors = [f \in Fields |-> <<>>]
    /\ returned = "none"
    /\ displayCalls = <<>>
    /\ ruleCalls = <<>>
    /\ fetchCalls = <<>>
    /\ alertShown = FALSE
    /\ lastOp = "init"
    /\ streak = 0
    /\ edits = 0
    /\ call = NoCall

\* The user changes the value of one field.
SetValue(attribute, v) ==
    /\ edits < MaxEdits
    /\ v # values[attribute]
    /\ values' = [values EXCEPT ![attribute] = v]
    /\ edits' = edits + 1
    /\ lastOp' = "edit"
    /\ streak' = 0
    /\ UNCHANGED <<settings, errors, returned, displayCalls, ruleCalls, fetchCalls,
                   alertShown, call>>

\* One call of validate().
Validate ==
    \E pass \in {validate} :
        /\ errors' = pass.errors
        /\ returned' = Bool(pass.isValid)
        /\ displayCalls' = pass.displayCalls
        /\ ruleCalls' = pass.ruleCalls
        /\ fetchCalls' = pass.fetchCalls
        /\ lastOp' = "validate"
        /\ streak' = Min(streak + 1, 2)
        /\ UNCHANGED <<settings, values, alertShown, edits, call>>

\* The submit handler, lines 256-263.  e.target.reset() restores the
\* fields' initial values and fires the reset handler; hideErrors follows.
Submit ==
    \E pass \in {validate} :
        /\ returned' = Bool(pass.isValid)
        /\ displayCalls' = pass.displayCalls
        /\ ruleCalls' = pass.ruleCalls
        /\ fetchCalls' = pass.fetchCalls
        /\ lastOp' = "submit"
        /\ IF pass.isValid
           THEN /\ values' = EmptyForm
                /\ errors' = hideErrors
                /\ alertShown' = TRUE
                /\ streak' = 0
           ELSE /\ errors' = pass.errors
                /\ streak' = Min(streak + 1, 2)
                /\ UNCHANGED <<values, alertShown>>
        /\ UNCHANGED <<settings, edits, call>>

\* The reset handler, lines 264-266, and the reset it accompanies.
Reset ==
    /\ values' = EmptyForm
    /\ errors' = hideErrors
    /\ lastOp' = "reset"
    /\ streak' = 0
    /\ UNCHANGED <<settings, returned, displayCalls, ruleCalls, fetchCalls,
                   alertShown, edits, call>>

Next ==
    \/ \E attribute \in Fields, v \in Inputs : SetValue(attribute, v)
    \/ Validate
    \/ Submit
    \/ Reset

Spec == Init /\ [][Next]_vars

----------------------------------------------------------------------------
(* A filled-in form under submit and reset events *)

\* Usernames of every length up to the bound.
UsernameInputs == {Fill(n) : n \in 0..MaxUsernameLen}

FilledForms ==
    [Fields -> Inputs]
    \cup {[v EXCEPT ![FieldUsername] = u] : v \in [Fields -> Inputs], u \in UsernameInputs}

\* The shipped page after the user has filled in the form.
InitFilled ==
    /\ settings = ShippedSettings
    /\ values \in FilledForms
    /\ errors = [f \in Fields |-> <<>>]
    /\ returned = "none"
    /\ displayCalls = <<>>
    /\ ruleCalls = <<>>
    /\ fetchCalls = <<>>
    /\ alertShown = FALSE
    /\ lastOp = "init"
    /\ streak = 0
    /\ edits = 0
    /\ call = NoCall

NextFilled ==
    \/ Validate
    \/ Submit
    \/ Reset

SpecFilled == InitFilled /\ [][NextFilled]_vars

----------------------------------------------------------------------------
(* Direct calls of replaceWithPlaceholders *)

\* The form does not take part in a direct call.
FormIdle ==
    /\ settings = ShippedSettings
    /\ values = EmptyForm
    /\ errors = [f \in Fields |-> <<>>]
    /\ returned = "none"
    /\ displayCalls = <<>>
    /\ ruleCalls = <<>>
    /\ fetchCalls = <<>>
    /\ alertShown = FALSE
    /\ lastOp = "init"
    /\ streak = 0
    /\ edits = 0

TplAlphabet == {"{", "}", "x", "_", " "}

RECURSIVE SeqsUpTo(_, _)
SeqsUpTo(S, n) ==
    IF n = 0 THEN {<<>>}
    ELSE LET shorter == SeqsUpTo(S, n - 1)
         IN  shorter \cup {Append(t, c) : t \in shorter, c \in S}

\* '{constructor}', 'x{constructor}', 'a {toString} b', '{__proto__}',
\* '{attribute}': templates whose identifiers are longer words.
WordTemplates ==
    { <<"{", "c", "o", "n", "s", "t", "r", "u", "c", "t", "o", "r", "}">>,
      <<"x", "{", "c", "o", "n", "s", "t", "r", "u", "c", "t", "o", "r",
      "}">>,
      <<"a", " ", "{", "t", "o", "S", "t", "r", "i", "n", "g", "}", " ",
      "b">>,
      <<"{", "_", "_", "p", "r", "o", "t", "o", "_", "_", "}">>,
      <<"{", "a", "t", "t", "r", "i", "b", "u", "t", "e", "}">> }

Templates == SeqsUpTo(TplAlphabet, MaxTplLen) \cup WordTemplates

\* {}, {x: 0}, {x: ''}, {x: 'v'}, {x: 16}, {x: '{xx}', xx: 'z'}, {min: 3}
NoReplacements == [k \in {} |-> JSNum(0)]
ReplacementMaps ==
    { NoReplacements,
      (<<"x">> :> JSNum(0)),
      (<<"x">> :> JSStr(<<>>)),
      (<<"x">> :> JSStr(<<"v">>)),
      (<<"x">> :> JSNum(16)),
      (<<"x">> :> JSStr(<<"{", "x", "x", "}">>)) @@ (<<"x", "x">> :> JSStr(<<"z">>)),
      (KeyMin :> JSNum(3)) }

InitTemplater ==
    /\ FormIdle
    /\ call \in { [fn |-> "replaceWithPlaceholders", string |-> s,
                   replacements |-> r, unwrap |-> u, done |-> FALSE, result |-> <<>>] :
                  s \in Templates, r \in ReplacementMaps, u \in BOOLEAN }

CallReplace ==
    /\ call.fn = "replaceWithPlaceholders"
    /\ ~call.done
    /\ call' = [call EXCEPT
                  !.done = TRUE,
                  !.result = replaceWithPlaceholders(call.string, call.replacements,
                                                     call.unwrap)]
    /\ UNCHANGED <<settings, values, errors, returned, displayCalls, ruleCalls,
                   fetchCalls, alertShown, lastOp, streak, edits>>

NextTemplater == CallReplace

SpecTemplater == InitTemplater /\ [][NextTemplater]_vars

----------------------------------------------------------------------------
(* Direct calls of the validators *)

\* The parameters a rule is constructed with.
Params == ((-1)..MaxParam) \cup {16}

RuleCallsDrawn ==
    { [fn |-> "rule", validation |-> v, value |-> x, done |-> FALSE, outcome |-> Valid] :
      v \in {RequiredRule, EmailRule}
            \cup {MinLengthRule(p) : p \in Params}
            \cup {MaxLengthRule(p) : p \in Params}
            \cup {BetweenLengthRule(p, q) : p \in Params, q \in Params},
      x \in RuleInputs }

InitRules ==
    /\ FormIdle
    /\ call \in RuleCallsDrawn

CallRule ==
    /\ call.fn = "rule"
    /\ ~call.done
    /\ call' = [call EXCEPT !.done = TRUE,
                            !.outcome = Apply(call.validation, call.value)]
    /\ UNCHANGED <<settings, values, errors, returned, displayCalls, ruleCalls,
                   fetchCalls, alertShown, lastOp, streak, edits>>

NextRules == CallRule

SpecRules == InitRules /\ [][NextRules]_vars

----------------------------------------------------------------------------
(* Properties of validate() *)

\* A validate() pass has completed and nothing has happened since.
PassJustCompleted ==
    lastOp = "validate" \/ (lastOp = "submit" /\ returned = "false")

Indices(q) == 1..Len(q)

\* The rules of entry e that fail on the field's current value.
FailingRules(e) ==
    {k \in Indices(e.validations) : ~Apply(e.validations[k], values[e.attribute]).valid}
FirstFailing(e) ==
    CHOOSE k \in FailingRules(e) : \A j \in FailingRules(e) : k <= j

TextThe == <<"T", "h", "e", " ">>
TextRequired ==
    <<" ", "f", "i", "e", "l", "d", " ", "i", "s", " ", "r", "e", "q", "u", "i",
      "r", "e", "d", ".">>
TextEmail ==
    <<" ", "m", "u", "s", "t", " ", "b", "e", " ", "a", " ", "v", "a", "l", "i",
      "d", " ", "e", "m", "a", "i", "l", " ", "a", "d", "d", "r", "e", "s", "s",
      ".">>
TextAtLeast ==
    <<" ", "m", "u", "s", "t", " ", "b", "e", " ", "a", "t", " ", "l", "e", "a",
      "s", "t", " ">>
TextCharactersDot ==
    <<" ", "c", "h", "a", "r", "a", "c", "t", "e", "r", "s", ".">>
TextNotGreater ==
    <<" ", "m", "u", "s", "t", " ", "n", "o", "t", " ", "b", "e", " ", "g", "r",
      "e", "a", "t", "e", "r", " ", "t", "h", "a", "n", " ">>
TextCharacters ==
    <<" ", "c", "h", "a", "r", "a", "c", "t", "e", "r", "s">>
TextBetween ==
    <<" ", "m", "u", "s", "t", " ", "b", "e", " ", "b", "e", "t", "w", "e", "e",
      "n", " ">>
TextAnd == <<" ", "a", "n", "d", " ">>
TextConfirmation ==
    <<" ", "c", "o", "n", "f", "i", "r", "m", "a", "t", "i", "o", "n", " ", "d",
      "o", "e", "s", " ", "n", "o", "t", " ", "m", "a", "t", "c", "h", ".">>

Numeral(n) == ToStr(JSNum(n))

\* The message of a rule, written out with the given text in the place of
\* {attribute} and the parameters in the places of {min} and {max}.
MessageText(validation, attributeText) ==
    CASE validation.kind = "required" -> TextThe \o attributeText \o TextRequired
      [] validation.kind = "email" -> TextThe \o attributeText \o TextEmail
      [] validation.kind = "minLength" ->
             TextThe \o attributeText \o TextAtLeast \o Numeral(validation.min)
                     \o TextCharactersDot
      [] validation.kind = "maxLength" ->
             TextThe \o attributeText \o TextNotGreater \o Numeral(validation.max)
                     \o TextCharacters
      [] validation.kind = "betweenLength" ->
             TextThe \o attributeText \o TextBetween \o Numeral(validation.min)
                     \o TextAnd \o Numeral(validation.max) \o TextCharactersDot
      [] validation.kind = "confirmation" ->
             TextThe \o attributeText \o TextConfirmation

\* The field's label, or the identifier when it has none.
LabelOrIdentifier(attribute) ==
    IF attribute \in DOMAIN LABELS THEN LABELS[attribute].str ELSE attribute

\* C1: after a completed validate() pass every registry field shows the
\* finalized message of its first failing rule, or the empty string when all
\* of its rules pass, whatever it showed before.
C1_FirstFailureDisplayed ==
    PassJustCompleted =>
        \A n \in Indices(settings) :
            LET e == settings[n]
            IN  errors[e.attribute] =
                    IF FailingRules(e) = {} THEN <<>>
                    ELSE MessageText(e.validations[FirstFailing(e)],
                                     LabelOrIdentifier(e.attribute))

\* A pass in which a labelled field fails, a field fails at its second rule
\* and a field passes, after the user has edited the form.
C1_Witness ==
    /\ PassJustCompleted
    /\ settings = ShippedSettings
    /\ edits > 0
    /\ errors[FieldConfirmPassword] # <<>>
    /\ \E n \in Indices(settings) :
          FailingRules(settings[n]) # {} /\ FirstFailing(settings[n]) = 2
    /\ \E n \in Indices(settings) : FailingRules(settings[n]) = {}

\* C2: validate() returns true iff every rule of every registry field passes;
\* it returns true exactly when the pass made no displayError call with a
\* non-empty message, and then every field received a Hide call.
C2_ReturnsTrueIffAllPass ==
    /\ lastOp = "validate" =>
          (returned = "true" <=>
              \A n \in Indices(settings) : FailingRules(settings[n]) = {})
    /\ returned # "none" =>
          (returned = "true" <=>
              \A i \in Indices(displayCalls) : displayCalls[i].error = <<>>)
    /\ returned = "true" =>
          \A n \in Indices(settings) :
              \E i \in Indices(displayCalls) :
                  /\ displayCalls[i].attribute = settings[n].attribute
                  /\ displayCalls[i].error = <<>>

\* validate() has just returned true on a form the user filled in.
C2_Witness ==
    /\ lastOp = "validate"
    /\ returned = "true"
    /\ \E f \in Fields : values[f] # <<>>

\* C3: once a rule of a field has failed, the pass evaluates no later rule of
\* that field and makes no later Display or Hide call for it; the first rule
\* of every field is evaluated all the same.
C3_ShortCircuit ==
    /\ \A i \in Indices(ruleCalls), j \in Indices(ruleCalls) :
          (i < j /\ ~ruleCalls[i].valid) =>
              ruleCalls[j].attribute # ruleCalls[i].attribute
    /\ \A i \in Indices(displayCalls), j \in Indices(displayCalls) :
          (i < j /\ displayCalls[i].error # <<>>) =>
              displayCalls[j].attribute # displayCalls[i].attribute
    /\ returned # "none" =>
          \A n \in Indices(settings) :
              \E i \in Indices(ruleCalls) :
                  /\ ruleCalls[i].attribute = settings[n].attribute
                  /\ ruleCalls[i].index = 1

\* A pass in which the first of two rules of a field failed, and a later
\* field was evaluated.
C3_Witness ==
    /\ returned # "none"
    /\ \E i \in Indices(ruleCalls), j \in Indices(ruleCalls) :
          /\ i < j
          /\ ruleCalls[i].index = 1
          /\ ~ruleCalls[i].valid
          /\ \E n \in Indices(settings) :
                /\ settings[n].attribute = ruleCalls[i].attribute
                /\ Len(settings[n].validations) = 2

\* The rule a recorded evaluation called.
RuleCalled(c) ==
    LET n == CHOOSE m \in Indices(settings) : settings[m].attribute = c.attribute
    IN  settings[n].validations[c.index]

\* C7: a confirmation rule passes a value iff the value equals the current
\* value of the original field at the time of the call, not the value the
\* original field had when the rule was constructed or called before.
C7_ConfirmationReadsLiveValue ==
    PassJustCompleted =>
        \A i \in Indices(ruleCalls) :
            RuleCalled(ruleCalls[i]).kind = "confirmation" =>
                (ruleCalls[i].valid <=>
                    ruleCalls[i].value =
                        values[RuleCalled(ruleCalls[i]).originalAttribute])

\* A confirmation rule was called after the original field had been changed,
\* and rejected the value the original field had at construction.
C7_Witness ==
    /\ PassJustCompleted
    /\ \E i \in Indices(ruleCalls) :
          /\ RuleCalled(ruleCalls[i]).kind = "confirmation"
          /\ ~ruleCalls[i].valid
          /\ ruleCalls[i].value = EmptyForm[RuleCalled(ruleCalls[i]).originalAttribute]
          /\ values[RuleCalled(ruleCalls[i]).originalAttribute] # <<>>

\* C8: a validate() pass that directly follows a completed pass returns the
\* same boolean and makes the same Display/Hide calls in the same order.
C8_Idempotent ==
    [][(PassJustCompleted /\ lastOp' \in {"validate", "submit"}) =>
          (returned' = returned /\ displayCalls' = displayCalls)]_vars

\* Two passes in a row over an edited form, with an error and a Hide call.
C8_Witness ==
    /\ streak = 2
    /\ edits > 0
    /\ returned = "false"
    /\ \E i \in Indices(displayCalls) : displayCalls[i].error # <<>>
    /\ \E i \in Indices(displayCalls) : displayCalls[i].error = <<>>

\* The Display/Hide calls of the last pass for one field.
CallsFor(attribute) ==
    SelectSeq(displayCalls, LAMBDA c : c.attribute = attribute)

\* The position of a field in the registry.
Position(attribute) ==
    CHOOSE n \in Indices(settings) : settings[n].attribute = attribute

\* C9: each rule evaluated fetches the field's current value once and makes
\* one call, Hide if it passed and Display if it failed; a field whose N rules
\* pass receives N Hide calls, a field whose k-th rule is the first to fail
\* receives k-1 Hide calls and then one Display call; fields are processed in
\* registry order.
C9_OneCallPerRule ==
    /\ Len(displayCalls) = Len(ruleCalls)
    /\ \A i \in Indices(ruleCalls) :
          /\ displayCalls[i].attribute = ruleCalls[i].attribute
          /\ (displayCalls[i].error = <<>>) <=> ruleCalls[i].valid
    /\ \A i \in Indices(displayCalls), j \in Indices(displayCalls) :
          i < j => Position(displayCalls[i].attribute)
                       <= Position(displayCalls[j].attribute)
    /\ LET ownFetches == SelectSeq(fetchCalls, LAMBDA c : c.line = 233)
       IN  /\ Len(ownFetches) = Len(ruleCalls)
           /\ \A i \in Indices(ruleCalls) :
                 ownFetches[i].attribute = ruleCalls[i].attribute
    /\ PassJustCompleted =>
          /\ \A i \in Indices(ruleCalls) :
                ruleCalls[i].value = values[ruleCalls[i].attribute]
          /\ \A n \in Indices(settings) :
                LET e == settings[n]
                    calls == CallsFor(e.attribute)
                    count == IF FailingRules(e) = {} THEN Len(e.validations)
                             ELSE FirstFailing(e)
                IN  /\ Len(calls) = count
                    /\ \A i \in 1..(count - 1) : calls[i].error = <<>>
                    /\ (calls[count].error = <<>>) <=> (FailingRules(e) = {})

\* A pass in which both rules of a field passed and another field failed at
\* its second rule.
C9_Witness ==
    /\ PassJustCompleted
    /\ \E n \in Indices(settings) :
          /\ Len(settings[n].validations) = 2
          /\ FailingRules(settings[n]) = {}
          /\ Len(CallsFor(settings[n].attribute)) = 2
    /\ \E n \in Indices(settings) :
          /\ FailingRules(settings[n]) # {}
          /\ FirstFailing(settings[n]) = 2

\* C10: with the shipped registry validate() never returns true, the success
\* branch of the submit handler is never reached, and every submit leaves an
\* error displayed for the username field.
C10_ShippedFormNeverSubmits ==
    /\ returned # "true"
    /\ ~alertShown
    /\ lastOp = "submit" => errors[FieldUsername] # <<>>

\* A submit of a form whose every field but username is accepted, with a
\* username of 3 to 16 characters.
C10_Witness ==
    /\ lastOp = "submit"
    /\ Len(values[FieldUsername]) >= 3
    /\ Len(values[FieldUsername]) <= 16
    /\ \A f \in Fields \ {FieldUsername} : errors[f] = <<>> /\ values[f] # <<>>

----------------------------------------------------------------------------
(* Properties of replaceWithPlaceholders *)

\* The indices at which a {identifier} token starts, and where it ends.
TokenStarts(string) ==
    {i \in Indices(string) :
        /\ string[i] = "{"
        /\ \E j \in (i + 2)..Len(string) :
              /\ string[j] = "}"
              /\ \A k \in (i + 1)..(j - 1) : string[k] \in WordChars}
TokenEnd(string, i) ==
    CHOOSE j \in (i + 2)..Len(string) :
        /\ string[j] = "}"
        /\ \A k \in (i + 1)..(j - 1) : string[k] \in WordChars
InsideToken(string, p) ==
    \E i \in TokenStarts(string) : i < p /\ p <= TokenEnd(string, i)

\* What the claim puts in the place of the token that starts at i: the
\* replacement given for the identifier, if one is given and truthy.
Substitute(string, i, replacements, unwrap) ==
    LET identifier == SubSeq(string, i + 1, TokenEnd(string, i) - 1)
        present == /\ identifier \in DOMAIN replacements
                   /\ Truthy(replacements[identifier])
    IN  IF present THEN ToStr(replacements[identifier])
        ELSE IF unwrap THEN identifier
        ELSE SubSeq(string, i, TokenEnd(string, i))

\* The output, position by position: a token gives its substitute where it
\* starts and nothing elsewhere, any other character gives itself.
RECURSIVE Rendered(_, _, _, _)
Rendered(string, p, replacements, unwrap) ==
    IF p > Len(string) THEN <<>>
    ELSE (IF p \in TokenStarts(string)
          THEN Substitute(string, p, replacements, unwrap)
          ELSE IF InsideToken(string, p) THEN <<>>
          ELSE <<string[p]>>)
         \o Rendered(string, p + 1, replacements, unwrap)

\* C4: replaceWithPlaceholders replaces every {identifier} token in one pass:
\* by the replacement when it is present and truthy, else by the unchanged
\* token (unwrap false) or the bare identifier (unwrap true); a falsy
\* replacement counts as absent and all other text is unchanged.
C4_TemplaterReplacesTokens ==
    (call.fn = "replaceWithPlaceholders" /\ call.done) =>
        call.result = Rendered(call.string, 1, call.replacements, call.unwrap)

\* The identifiers that name no property of Object.prototype.
OrdinaryIdentifiers(string) ==
    \A i \in TokenStarts(string) :
        SubSeq(string, i + 1, TokenEnd(string, i) - 1) \notin DOMAIN ObjectPrototype

\* The rendering above is what replaceWithPlaceholders returns whenever no
\* identifier of the template names a property of Object.prototype.
TemplaterOnOrdinaryIdentifiers ==
    (/\ call.fn = "replaceWithPlaceholders"
     /\ call.done
     /\ OrdinaryIdentifiers(call.string)) =>
        call.result = Rendered(call.string, 1, call.replacements, call.unwrap)

----------------------------------------------------------------------------
(* Properties of the validators *)

AttributeToken == <<"{", "a", "t", "t", "r", "i", "b", "u", "t", "e", "}">>

\* C5: when a parameterized rule fails, its template has {min} and {max}
\* replaced by the parameter values and only {attribute} left, for every
\* integer parameter value.
C5_ParametersSubstituted ==
    (/\ call.fn = "rule"
     /\ call.done
     /\ call.validation.kind \in {"minLength", "maxLength", "betweenLength"}
     /\ ~call.outcome.valid) =>
        call.outcome.error = MessageText(call.validation, AttributeToken)

\* C6: betweenLength(min, max) passes a value exactly when its length is at
\* most min and at least max: with min < max it rejects every value, and it
\* passes only when max <= length <= min.
C6_BetweenLengthAsWritten ==
    (call.fn = "rule" /\ call.done /\ call.validation.kind = "betweenLength") =>
        LET min == call.validation.min
            max == call.validation.max
            length == Len(call.value)
        IN  /\ call.outcome.valid <=> (length <= min /\ length >= max)
            /\ min < max => ~call.outcome.valid
            /\ call.outcome.valid => (max <= length /\ length <= min)

\* A value whose length lies between min and max, min < max, was rejected.
C6_Witness ==
    /\ call.fn = "rule"
    /\ call.done
    /\ call.validation.kind = "betweenLength"
    /\ call.validation.min < call.validation.max
    /\ call.validation.min <= Len(call.value)
    /\ Len(call.value) <= call.validation.max
    /\ ~call.outcome.valid

=============================================================================
